---------------------------- MODULE Spec2Model ----------------------------
(***************************************************************************)
(* HealthGennie: the metric store (User, WaterLog, StepLog), the daily     *)
(* aggregation, the BMI entry points and the /mcp command router.          *)
(*                                                                         *)
(* Numbers.  Percentages are kept in hundredths of a percent, BMI values   *)
(* in tenths (after round(x, 1)) or hundredths (after round(x, 2)),        *)
(* weights in tenths of a kilogram and heights in centimetres, so that     *)
(* every quantity of the code is an integer of the model.  Python's        *)
(* round() acts on the binary float: where the exact value lies half way   *)
(* between two neighbours the float may fall on either side, and the       *)
(* model allows both.                                                      *)
(*                                                                         *)
(* Time.  The clock counts half days of UTC; tz is the host's offset from  *)
(* UTC in half days.  datetime.utcnow() reads now, date.today() reads the  *)
(* calendar date of now + tz.                                              *)
(***************************************************************************)
EXTENDS Integers, Sequences, FiniteSets, TLC

VARIABLES
    users,        \* table user: row i has id i
    water_logs,   \* table water_log
    step_logs,    \* table step_log
    session,      \* flask session['phone_number'] of the HTTP client
    now,          \* UTC clock, in half days
    tz,           \* host offset from UTC, in half days
    health_records, \* table health_record
    pending,      \* per worker: the get-or-create whose lookup found no user
    request,      \* the request handed to a pure entry point
    reply         \* what the last handler returned

vars == <<users, water_logs, step_logs, session, now, tz, health_records, pending,
         request, reply>>

-----------------------------------------------------------------------------
(* Bounds of the model *)

MaxLogs == 2
MaxNow == 2

(* Program constants *)

DEFAULT_WATER_GOAL == 2500
DEFAULT_STEP_GOAL == 10000

Phones == {"p1", "p2"}
Amounts == {0, 1, 2499}
StepCounts == {0, 9999}
TzOffsets == {0, 1}

\* Python None for an optional value: None is the empty tuple, v is <<v>>.
None == << >>
Some(v) == <<v>>

\* The MCP server runs its tools on one event loop and no tool awaits: one
\* tool call at a time.  The Flask application serves its requests on threads.
Workers == {"mcp", "web1", "web2"}

NoSession == "-"
NoReply == [op |-> "none", error |-> FALSE, http |-> 0]
Idle == [op |-> "idle"]
NoRequest == [kind |-> "none"]

Min(a, b) == IF a <= b THEN a ELSE b
Max(a, b) == IF a >= b THEN a ELSE b

-----------------------------------------------------------------------------
(* Clock *)

\* func.date(logged_at): the calendar date of a UTC timestamp.
DateOf(t) == t \div 2

\* date.today(): the host-local calendar date.
Today == DateOf(now + tz)

-----------------------------------------------------------------------------
(* models.py *)

\* A slip: user.phone_number = phone_number left out of the new row.
NewUserWithoutPhone(phone_number) ==
    [phone_number |-> "", height |-> None, weight |-> None]

NewUser(phone_number) ==
    [phone_number |-> phone_number, height |-> None, weight |-> None]

\* User.query.filter_by(phone_number=...).first(): the id of the first row, 0 if none.
FindUser(tbl, phone_number) ==
    LET hits == {i \in DOMAIN tbl : tbl[i].phone_number = phone_number}
    IN  IF hits = {} THEN 0 ELSE CHOOSE i \in hits : \A j \in hits : i <= j

\* A slip: the column declared without unique=True.
NoUniqueConstraint(tbl, phone_number) == FALSE

\* phone_number = db.Column(..., unique=True): the insert of a second row
\* with the same phone_number fails at commit (IntegrityError).
UniqueViolation(tbl, phone_number) ==
    \E i \in DOMAIN tbl : tbl[i].phone_number = phone_number

RECURSIVE SumOf(_, _)
SumOf(f, S) ==
    IF S = {} THEN 0
    ELSE LET i == CHOOSE x \in S : TRUE
         IN  f[i] + SumOf(f, S \ {i})

\* A slip: the filter on the date left out.
DailyWaterOfAllDates(logs, user_id, target_date) ==
    LET rows == {i \in DOMAIN logs : logs[i].user_id = user_id}
    IN  IF rows = {} THEN 0 ELSE SumOf([i \in rows |-> logs[i].amount], rows)

\* User.get_daily_water_intake: SUM(amount) over the user's rows of the date, or 0.
get_daily_water_intake(logs, user_id, target_date) ==
    LET rows == {i \in DOMAIN logs :
                    /\ logs[i].user_id = user_id
                    /\ DateOf(logs[i].logged_at) = target_date}
    IN  IF rows = {} THEN 0 ELSE SumOf([i \in rows |-> logs[i].amount], rows)

\* User.get_daily_steps: SUM(steps) over the user's rows of the date, or 0.
get_daily_steps(logs, user_id, target_date) ==
    LET rows == {i \in DOMAIN logs :
                    /\ logs[i].user_id = user_id
                    /\ DateOf(logs[i].logged_at) = target_date}
    IN  IF rows = {} THEN 0 ELSE SumOf([i \in rows |-> logs[i].steps], rows)

\* The integers nearest to num / den (den > 0): both neighbours at a tie.
RoundDiv(num, den) ==
    LET q == num \div den
        r == num % den
    IN  IF 2 * r < den THEN {q}
        ELSE IF 2 * r > den THEN {q + 1}
        ELSE {q, q + 1}

\* User.calculate_bmi: round(weight / (height / 100) ** 2, 1), or None.  The
\* results the float arithmetic can give, each in hundredths.
User_calculate_bmi(height, weight) ==
    IF height # None /\ weight # None /\ height[1] # 0 /\ weight[1] # 0
    THEN {Some(10 * t) : t \in RoundDiv(weight[1] * 10000, height[1] * height[1])}
    ELSE {None}

\* User.get_bmi_category, of the value calculate_bmi returned.
User_get_bmi_category(bmi) ==
    IF bmi = None \/ bmi[1] = 0 THEN "Unknown"
    ELSE IF bmi[1] < 1850 THEN "Underweight"
    ELSE IF 1850 <= bmi[1] /\ bmi[1] < 2500 THEN "Normal weight"
    ELSE IF 2500 <= bmi[1] /\ bmi[1] < 3000 THEN "Overweight"
    ELSE "Obese"

\* HealthRecord(user_id, weight), record_date defaulting to date.today().
NewRecord(user_id, weight, record_date) ==
    [user_id |-> user_id, weight |-> weight, record_date |-> record_date]

\* A slip: order_by(record_date) ascending.
OldestRecord(tbl, user_id) ==
    LET rows == {i \in DOMAIN tbl : tbl[i].user_id = user_id}
    IN  IF rows = {} THEN {None}
        ELSE {Some(tbl[i]) : i \in {k \in rows :
                 \A j \in rows : tbl[k].record_date <= tbl[j].record_date}}

\* HealthRecord.query.filter_by(user_id=...).order_by(record_date.desc()).first():
\* None without a row; of the rows of the greatest record_date, the one the
\* database returns first.
recent_record(tbl, user_id) ==
    LET rows == {i \in DOMAIN tbl : tbl[i].user_id = user_id}
    IN  IF rows = {} THEN {None}
        ELSE {Some(tbl[i]) : i \in {k \in rows :
                 \A j \in rows : tbl[j].record_date <= tbl[k].record_date}}

\* The record as a summary reports it.
ReportedRecord(rec) ==
    IF rec = None THEN None
    ELSE Some([date |-> rec[1].record_date, weight |-> rec[1].weight])

-----------------------------------------------------------------------------
(* Goal progress, as every handler computes it *)

\* (daily_total / goal) * 100, in hundredths of a percent.  Exact for the
\* configured goals, which divide 10000.
Ratio100(daily_total, goal) == (daily_total * 10000) \div goal

\* A slip: the cap at 100 left out.
PercentageUncapped(daily_total, goal) == Ratio100(daily_total, goal)

\* percentage = min(100, (daily_total / goal) * 100)
Percentage(daily_total, goal) == Min(10000, Ratio100(daily_total, goal))

\* round(x, 1) of a value given in hundredths: the results in hundredths.
Round1(x100) ==
    LET q == x100 \div 10
        r == x100 % 10
    IN  IF r < 5 THEN {10 * q}
        ELSE IF r > 5 THEN {10 * (q + 1)}
        ELSE {10 * q, 10 * (q + 1)}

\* max(0, goal - daily_total)
Remaining(daily_total, goal) == Max(0, goal - daily_total)

-----------------------------------------------------------------------------
(* Initial state of the store *)

StoreInit ==
    /\ users = << >>
    /\ water_logs = << >>
    /\ step_logs = << >>
    /\ session = NoSession
    /\ now = 1
    /\ tz \in TzOffsets
    /\ health_records = << >>
    /\ pending = [w \in Workers |-> Idle]
    /\ request = NoRequest
    /\ reply = NoReply

HasRoom == Len(water_logs) + Len(step_logs) + Len(health_records) < MaxLogs

-----------------------------------------------------------------------------
(* Replies *)

\* jsonify({'error': ...}), status
HttpError(op, status) == [op |-> op, error |-> TRUE, http |-> status, cause |-> "check"]

\* An exception no handler of the route catches: Flask answers 500.
HttpUnhandled(op, exc) == [op |-> op, error |-> TRUE, http |-> 500, cause |-> exc]

\* except Exception as e: return json.dumps({"error": f"Failed to ...: {str(e)}"})
ToolError(op, exc) == [op |-> op, error |-> TRUE, http |-> 0, cause |-> exc]


-----------------------------------------------------------------------------
(* JSON values of a request parameter, and Python's int() of them *)

Absent == [json |-> "absent"]
JNull == [json |-> "null"]
JInt(n) == [json |-> "int", v |-> n]
JFloat(tenths) == [json |-> "float", v10 |-> tenths]
JStr(text) == [json |-> "str", text |-> text]

Digits == <<"0", "1", "2", "3", "4", "5", "6", "7", "8", "9">>

IsDigits(text) ==
    /\ Len(text) > 0
    /\ \A i \in DOMAIN text : \E d \in DOMAIN Digits : Digits[d] = text[i]

RECURSIVE ParseDigits(_)
ParseDigits(text) ==
    IF text = << >> THEN 0
    ELSE LET last == text[Len(text)]
             d == CHOOSE k \in DOMAIN Digits : Digits[k] = last
         IN  10 * ParseDigits(SubSeq(text, 1, Len(text) - 1)) + (d - 1)

\* data.get(key, 0)
GetOr0(value) == IF value.json = "absent" THEN JInt(0) ELSE value

\* int(x): an integer as it is, a float truncated towards zero, a string of
\* digits parsed; any other string raises ValueError, None TypeError.
py_int(value) ==
    IF value.json = "int" THEN [ok |-> TRUE, v |-> value.v]
    ELSE IF value.json = "float"
    THEN [ok |-> TRUE, v |-> IF value.v10 >= 0 THEN value.v10 \div 10
                                               ELSE -((-value.v10) \div 10)]
    ELSE IF value.json = "str"
    THEN IF IsDigits(value.text) THEN [ok |-> TRUE, v |-> ParseDigits(value.text)]
         ELSE [ok |-> FALSE, exc |-> "ValueError"]
    ELSE [ok |-> FALSE, exc |-> "TypeError"]

-----------------------------------------------------------------------------
(* routes.py: water and steps *)

\* A slip: the check of the value left out.
NeverInvalid(value) == FALSE

\* if amount <= 0 / if steps <= 0
Invalid(value) == value <= 0

\* POST /api/water/log, data['amount'] being the JSON value given.
http_log_water(value) ==
    LET conv == py_int(GetOr0(value))
        amount == conv.v
    IN
    /\ UNCHANGED <<users, step_logs, session, now, tz, health_records, pending, request>>
    /\ IF session = NoSession
       THEN reply' = HttpError("http_log_water", 401) /\ UNCHANGED water_logs
       ELSE IF ~conv.ok
       THEN reply' = HttpUnhandled("http_log_water", conv.exc) /\ UNCHANGED water_logs
       ELSE IF Invalid(amount)
       THEN reply' = HttpError("http_log_water", 400) /\ UNCHANGED water_logs
       ELSE LET id == FindUser(users, session) IN
            IF id = 0
            THEN reply' = HttpError("http_log_water", 404) /\ UNCHANGED water_logs
            ELSE LET logs == Append(water_logs,
                                [user_id |-> id, amount |-> amount, logged_at |-> now])
                     daily_total == get_daily_water_intake(logs, id, Today)
                     goal == DEFAULT_WATER_GOAL
                 IN  /\ water_logs' = logs
                     /\ \E pct \in Round1(Percentage(daily_total, goal)) :
                           reply' = [op |-> "http_log_water", error |-> FALSE, http |-> 200,
                                     phone |-> session, logged |-> amount,
                                     progress |-> {[kind |-> "water",
                                                    daily_total |-> daily_total,
                                                    goal |-> goal,
                                                    percentage |-> pct]}]

\* GET /api/water/today
get_water_today ==
    /\ UNCHANGED <<users, water_logs, step_logs, session, now, tz, health_records, pending, request>>
    /\ IF session = NoSession
       THEN reply' = HttpError("get_water_today", 401)
       ELSE LET id == FindUser(users, session) IN
            IF id = 0
            THEN reply' = HttpError("get_water_today", 404)
            ELSE LET daily_total == get_daily_water_intake(water_logs, id, Today)
                     goal == DEFAULT_WATER_GOAL
                 IN  \E pct \in Round1(Percentage(daily_total, goal)) :
                        reply' = [op |-> "get_water_today", error |-> FALSE, http |-> 200,
                                  phone |-> session,
                                  progress |-> {[kind |-> "water",
                                                 daily_total |-> daily_total,
                                                 goal |-> goal,
                                                 percentage |-> pct,
                                                 remaining |-> Remaining(daily_total, goal)]}]

\* POST /api/steps/log, data['steps'] being the JSON value given.
http_log_steps(value) ==
    LET conv == py_int(GetOr0(value))
        steps == conv.v
    IN
    /\ UNCHANGED <<users, water_logs, session, now, tz, health_records, pending, request>>
    /\ IF session = NoSession
       THEN reply' = HttpError("http_log_steps", 401) /\ UNCHANGED step_logs
       ELSE IF ~conv.ok
       THEN reply' = HttpUnhandled("http_log_steps", conv.exc) /\ UNCHANGED step_logs
       ELSE IF Invalid(steps)
       THEN reply' = HttpError("http_log_steps", 400) /\ UNCHANGED step_logs
       ELSE LET id == FindUser(users, session) IN
            IF id = 0
            THEN reply' = HttpError("http_log_steps", 404) /\ UNCHANGED step_logs
            ELSE LET logs == Append(step_logs,
                                [user_id |-> id, steps |-> steps, logged_at |-> now])
                     daily_total == get_daily_steps(logs, id, Today)
                     goal == DEFAULT_STEP_GOAL
                 IN  /\ step_logs' = logs
                     /\ \E pct \in Round1(Percentage(daily_total, goal)) :
                           reply' = [op |-> "http_log_steps", error |-> FALSE, http |-> 200,
                                     phone |-> session, logged |-> steps,
                                     progress |-> {[kind |-> "steps",
                                                    daily_total |-> daily_total,
                                                    goal |-> goal,
                                                    percentage |-> pct]}]

\* GET /api/steps/today
get_steps_today ==
    /\ UNCHANGED <<users, water_logs, step_logs, session, now, tz, health_records, pending, request>>
    /\ IF session = NoSession
       THEN reply' = HttpError("get_steps_today", 401)
       ELSE LET id == FindUser(users, session) IN
            IF id = 0
            THEN reply' = HttpError("get_steps_today", 404)
            ELSE LET daily_total == get_daily_steps(step_logs, id, Today)
                     goal == DEFAULT_STEP_GOAL
                 IN  \E pct \in Round1(Percentage(daily_total, goal)) :
                        reply' = [op |-> "get_steps_today", error |-> FALSE, http |-> 200,
                                  phone |-> session,
                                  progress |-> {[kind |-> "steps",
                                                 daily_total |-> daily_total,
                                                 goal |-> goal,
                                                 percentage |-> pct,
                                                 remaining |-> Remaining(daily_total, goal)]}]

-----------------------------------------------------------------------------
(* mcp_server.py *)

\* db.session.add(user); db.session.commit() of a new User.
InsertUser(tbl, phone_number) ==
    IF UniqueViolation(tbl, phone_number)
    THEN [ok |-> FALSE, users |-> tbl, id |-> 0]
    ELSE [ok |-> TRUE, users |-> Append(tbl, NewUser(phone_number)), id |-> Len(tbl) + 1]

\* get_or_create_user, from what its lookup found (0: no user) on.  The
\* commit raises IntegrityError (ok = FALSE) when another writer has
\* inserted the phone number since the lookup.
get_or_create_user(found, phone_number) ==
    IF found # 0
    THEN [ok |-> TRUE, users |-> users, id |-> found]
    ELSE InsertUser(users, phone_number)

\* Tool log_water_intake.  The User returned by get_or_create_user is taken
\* to stay usable in the caller's application context.
tool_log_water_intake(found, phone_number, amount_ml) ==
    LET goc == get_or_create_user(found, phone_number) IN
    /\ UNCHANGED <<step_logs, session, now, tz, health_records, request>>
    /\ IF ~goc.ok
       THEN /\ reply' = ToolError("tool_log_water_intake", "IntegrityError")
            /\ UNCHANGED <<users, water_logs>>
       ELSE LET logs == Append(water_logs,
                           [user_id |-> goc.id, amount |-> amount_ml, logged_at |-> now])
                daily_total == get_daily_water_intake(logs, goc.id, Today)
                goal == DEFAULT_WATER_GOAL
            IN  /\ users' = goc.users
                /\ water_logs' = logs
                /\ \E pct \in Round1(Percentage(daily_total, goal)) :
                      reply' = [op |-> "tool_log_water_intake", error |-> FALSE, http |-> 0,
                                phone |-> phone_number, logged |-> amount_ml,
                                progress |-> {[kind |-> "water",
                                               daily_total |-> daily_total,
                                               goal |-> goal,
                                               percentage |-> pct,
                                               remaining |-> Remaining(daily_total, goal),
                                               status |-> IF daily_total >= goal
                                                          THEN "Goal reached!"
                                                          ELSE "Keep drinking!"]}]

\* Tool log_steps.
tool_log_steps(found, phone_number, steps) ==
    LET goc == get_or_create_user(found, phone_number) IN
    /\ UNCHANGED <<water_logs, session, now, tz, health_records, request>>
    /\ IF ~goc.ok
       THEN /\ reply' = ToolError("tool_log_steps", "IntegrityError")
            /\ UNCHANGED <<users, step_logs>>
       ELSE LET logs == Append(step_logs,
                           [user_id |-> goc.id, steps |-> steps, logged_at |-> now])
                daily_total == get_daily_steps(logs, goc.id, Today)
                goal == DEFAULT_STEP_GOAL
            IN  /\ users' = goc.users
                /\ step_logs' = logs
                /\ \E pct \in Round1(Percentage(daily_total, goal)) :
                      reply' = [op |-> "tool_log_steps", error |-> FALSE, http |-> 0,
                                phone |-> phone_number, logged |-> steps,
                                progress |-> {[kind |-> "steps",
                                               daily_total |-> daily_total,
                                               goal |-> goal,
                                               percentage |-> pct,
                                               remaining |-> Remaining(daily_total, goal),
                                               status |-> IF daily_total >= goal
                                                          THEN "Goal achieved!"
                                                          ELSE "Keep moving!"]}]

\* Tool calculate_bmi: stores the height and the weight, then computes.
tool_calculate_bmi(found, phone_number, height_cm, weight_kg) ==
    LET goc == get_or_create_user(found, phone_number) IN
    /\ UNCHANGED <<water_logs, step_logs, session, now, tz, health_records, request>>
    /\ IF ~goc.ok
       THEN /\ reply' = ToolError("tool_calculate_bmi", "IntegrityError")
            /\ UNCHANGED users
       ELSE /\ users' = [goc.users EXCEPT ![goc.id].height = Some(height_cm),
                                          ![goc.id].weight = Some(weight_kg)]
            /\ \E bmi \in User_calculate_bmi(Some(height_cm), Some(weight_kg)) :
                  reply' = [op |-> "tool_calculate_bmi", error |-> FALSE, http |-> 0,
                            phone |-> phone_number,
                            bmi |-> bmi, category |-> User_get_bmi_category(bmi),
                            height_cm |-> height_cm, weight_kg |-> weight_kg]

\* Tool get_health_summary (water and step progress, BMI, latest record).
tool_get_health_summary(found, phone_number) ==
    LET goc == get_or_create_user(found, phone_number) IN
    /\ UNCHANGED <<water_logs, step_logs, session, now, tz, health_records, request>>
    /\ IF ~goc.ok
       THEN /\ reply' = ToolError("tool_get_health_summary", "IntegrityError")
            /\ UNCHANGED users
       ELSE LET user == goc.users[goc.id]
                daily_water == get_daily_water_intake(water_logs, goc.id, Today)
                daily_steps == get_daily_steps(step_logs, goc.id, Today)
                water_goal == DEFAULT_WATER_GOAL
                step_goal == DEFAULT_STEP_GOAL
            IN  /\ users' = goc.users
                /\ \E bmi \in User_calculate_bmi(user.height, user.weight),
                      wp \in Round1(Percentage(daily_water, water_goal)),
                      sp \in Round1(Percentage(daily_steps, step_goal)),
                      rec \in recent_record(health_records, goc.id) :
                      reply' = [op |-> "tool_get_health_summary", error |-> FALSE, http |-> 0,
                                phone |-> phone_number,
                                latest |-> ReportedRecord(rec),
                                bmi |-> bmi, category |-> User_get_bmi_category(bmi),
                                progress |-> {[kind |-> "water",
                                               daily_total |-> daily_water,
                                               goal |-> water_goal,
                                               percentage |-> wp,
                                               status |-> IF daily_water >= water_goal
                                                          THEN "Completed"
                                                          ELSE "In Progress"],
                                              [kind |-> "steps",
                                               daily_total |-> daily_steps,
                                               goal |-> step_goal,
                                               percentage |-> sp,
                                               status |-> IF daily_steps >= step_goal
                                                          THEN "Completed"
                                                          ELSE "In Progress"]}]

\* A slip: the new record written over the table's last row.
OverwriteRecord(tbl, row) ==
    IF tbl = << >> THEN <<row>> ELSE [tbl EXCEPT ![Len(tbl)] = row]

\* db.session.add(health_record); db.session.commit()
AddRecord(tbl, row) == Append(tbl, row)

\* if weight_kg: user.weight = weight_kg; db.session.commit()
SetWeight(tbl, id, weight_kg) ==
    IF weight_kg # None /\ weight_kg[1] # 0
    THEN [tbl EXCEPT ![id].weight = weight_kg]
    ELSE tbl

\* Tool log_health_metrics.  Of the metrics, the weight is modelled;
\* weight_kg is None when the call does not give it.
tool_log_health_metrics(found, phone_number, weight_kg) ==
    LET goc == get_or_create_user(found, phone_number) IN
    /\ UNCHANGED <<water_logs, step_logs, session, now, tz, request>>
    /\ IF ~goc.ok
       THEN /\ reply' = ToolError("tool_log_health_metrics", "IntegrityError")
            /\ UNCHANGED <<users, health_records>>
       ELSE LET tbl == SetWeight(goc.users, goc.id, weight_kg)
                user == tbl[goc.id]
            IN  /\ users' = tbl
                /\ health_records' =
                      AddRecord(health_records, NewRecord(goc.id, weight_kg, Today))
                /\ \E bmi \in User_calculate_bmi(user.height, user.weight) :
                      reply' = [op |-> "tool_log_health_metrics", error |-> FALSE, http |-> 0,
                                phone |-> phone_number,
                                weight_kg |-> weight_kg,
                                bmi_updated |-> IF weight_kg # None /\ weight_kg[1] # 0
                                                THEN bmi ELSE None,
                                record_date |-> Today]

-----------------------------------------------------------------------------
(* routes.py: login, profile, summary, BMI *)

NoPhone == "-"

\* POST /api/login, from what its lookup found on.
login(found, phone_number) ==
    /\ UNCHANGED <<water_logs, step_logs, now, tz, health_records, request>>
    /\ IF phone_number = NoPhone
       THEN reply' = HttpError("login", 400) /\ UNCHANGED <<users, session>>
       ELSE LET ins == IF found # 0
                       THEN [ok |-> TRUE, users |-> users, id |-> found]
                       ELSE InsertUser(users, phone_number)
            IN  IF ~ins.ok
                THEN /\ reply' = HttpUnhandled("login", "IntegrityError")
                     /\ UNCHANGED <<users, session>>
                ELSE LET user == ins.users[ins.id] IN
                     /\ users' = ins.users
                     /\ session' = phone_number
                     /\ reply' = [op |-> "login", error |-> FALSE, http |-> 200,
                                  phone |-> user.phone_number,
                                  has_profile |-> /\ user.height # None
                                                  /\ user.height[1] # 0
                                                  /\ user.weight # None
                                                  /\ user.weight[1] # 0]

\* session.get('phone_number') or data.get('phone_number')
ProfilePhone(data) == IF session # NoSession THEN session ELSE data.phone_number

\* POST /api/user/profile, from what its lookup found on.  Of the profile
\* fields, height and weight are modelled; a field of data that is None is
\* absent from the request.
user_profile(found, phone_number, data) ==
    /\ UNCHANGED <<water_logs, step_logs, now, tz, health_records, request>>
    /\ IF phone_number = NoPhone
       THEN reply' = HttpError("user_profile", 400) /\ UNCHANGED <<users, session>>
       ELSE LET ins == IF found # 0
                       THEN [ok |-> TRUE, users |-> users, id |-> found]
                       ELSE InsertUser(users, phone_number)
            IN  IF ~ins.ok
                THEN /\ reply' = HttpUnhandled("user_profile", "IntegrityError")
                     /\ UNCHANGED <<users, session>>
                ELSE LET old == ins.users[ins.id]
                         user == [old EXCEPT
                                    !.height = IF data.height # None THEN data.height ELSE @,
                                    !.weight = IF data.weight # None THEN data.weight ELSE @]
                     IN  /\ users' = [ins.users EXCEPT ![ins.id] = user]
                         /\ session' = phone_number
                         /\ \E bmi \in User_calculate_bmi(user.height, user.weight) :
                               reply' = [op |-> "user_profile", error |-> FALSE, http |-> 200,
                                         phone |-> phone_number,
                                         bmi |-> bmi,
                                         category |-> User_get_bmi_category(bmi)]

\* GET /api/health/summary (water and step progress, BMI, latest record).
health_summary ==
    /\ UNCHANGED <<users, water_logs, step_logs, session, now, tz, health_records, pending, request>>
    /\ IF session = NoSession
       THEN reply' = HttpError("health_summary", 401)
       ELSE LET id == FindUser(users, session) IN
            IF id = 0
            THEN reply' = HttpError("health_summary", 404)
            ELSE LET user == users[id]
                     water_total == get_daily_water_intake(water_logs, id, Today)
                     steps_total == get_daily_steps(step_logs, id, Today)
                 IN  \E bmi \in User_calculate_bmi(user.height, user.weight),
                        rec \in recent_record(health_records, id) :
                        reply' = [op |-> "health_summary", error |-> FALSE, http |-> 200,
                                  phone |-> session,
                                  latest |-> ReportedRecord(rec),
                                  bmi |-> bmi, category |-> User_get_bmi_category(bmi),
                                  progress |->
                                    {[kind |-> "water",
                                      daily_total |-> water_total,
                                      goal |-> DEFAULT_WATER_GOAL,
                                      percentage |-> Percentage(water_total, DEFAULT_WATER_GOAL)],
                                     [kind |-> "steps",
                                      daily_total |-> steps_total,
                                      goal |-> DEFAULT_STEP_GOAL,
                                      percentage |-> Percentage(steps_total, DEFAULT_STEP_GOAL)]}]

\* POST /api/bmi/calculate: the replies the request can get.  height and
\* weight are None when the body lacks them: float(None) raises TypeError,
\* which the route does not catch.
http_calculate_bmi(height, weight) ==
    IF height = None \/ weight = None
    THEN {HttpUnhandled("http_calculate_bmi", "TypeError")}
    ELSE IF height[1] = 0 \/ weight[1] = 0
    THEN {HttpError("http_calculate_bmi", 400)}
    ELSE LET bmis == RoundDiv(weight[1] * 10000, height[1] * height[1]) IN
         {[op |-> "http_calculate_bmi", error |-> FALSE, http |-> 200,
           bmi |-> Some(10 * t),
           category |-> IF 10 * t < 1850 THEN "Underweight"
                        ELSE IF 1850 <= 10 * t /\ 10 * t < 2500 THEN "Normal weight"
                        ELSE IF 2500 <= 10 * t /\ 10 * t < 3000 THEN "Overweight"
                        ELSE "Obese"] : t \in bmis}

-----------------------------------------------------------------------------
(* app.py: /bmi *)

\* POST /bmi: the replies the request can get.  height is in metres in the
\* request and in hundredths of a metre here; the category is taken from
\* the unrounded value, the reported bmi is round(bmi_value, 2).
app_bmi(weight, height) ==
    IF weight = None \/ height = None \/ weight[1] = 0 \/ height[1] = 0
    THEN {HttpError("app_bmi", 400)}
    ELSE LET num == weight[1] * 10000      \* bmi_value = num / (10 * den)
             den == height[1] * height[1]
         IN  {[op |-> "app_bmi", error |-> FALSE, http |-> 200,
               bmi |-> Some(b),
               category |-> IF num < 185 * den THEN "Underweight"
                            ELSE IF num < 249 * den THEN "Normal weight"
                            ELSE IF num < 299 * den THEN "Overweight"
                            ELSE "Obese"] : b \in RoundDiv(num * 10, den)}

-----------------------------------------------------------------------------
(* app.py: /mcp, the command router *)

\* Texts are tuples of one-character strings.
Bmi == <<"b", "m", "i">>
Water == <<"w", "a", "t", "e", "r">>
Steps == <<"s", "t", "e", "p", "s">>
Tip == <<"t", "i", "p">>
Log == <<"l", "o", "g">>
Ai == <<"a", "i">>

\* str.lower(), on the letters the requests are built from.
LowerChar(c) ==
    CASE c = "A" -> "a" [] c = "B" -> "b" [] c = "G" -> "g" [] c = "I" -> "i"
      [] c = "L" -> "l" [] c = "M" -> "m" [] c = "O" -> "o" [] c = "P" -> "p"
      [] c = "T" -> "t" [] OTHER -> c

Lower(text) == [i \in DOMAIN text |-> LowerChar(text[i])]

\* A slip: text.startswith(keyword) for keyword in text.
ContainsAtStart(text, keyword) ==
    /\ Len(keyword) <= Len(text)
    /\ SubSeq(text, 1, Len(keyword)) = keyword

\* keyword in text
Contains(text, keyword) ==
    \E i \in 0..(Len(text) - Len(keyword)) :
        SubSeq(text, i + 1, i + Len(keyword)) = keyword

Tips == 1..5

\* A JSON value of the body: a string, or something that is no string.
Str(text) == [type |-> "str", text |-> text]
NotStr == [type |-> "other", text |-> << >>]

\* The intent of a lowercased message: the first keyword found, in the
\* order of the elif chain.
Route(user_message) ==
    IF Contains(user_message, Bmi) THEN "bmi"
    ELSE IF Contains(user_message, Water) THEN "water-intake"
    ELSE IF Contains(user_message, Steps) THEN "steps"
    ELSE IF Contains(user_message, Tip) THEN "health-tips"
    ELSE IF Contains(user_message, Log) THEN "log-health"
    ELSE IF Contains(user_message, Ai) THEN "ai-assistant"
    ELSE "unknown"

\* A slip: the fallback answered as a client error.
UnknownReplyAsError ==
    [op |-> "mcp", error |-> TRUE, http |-> 400, command |-> "unknown", help |-> TRUE]

\* jsonify({"message": "Unknown command. Try: bmi, water, steps, tip, log, ai"})
UnknownReply ==
    [op |-> "mcp", error |-> FALSE, http |-> 200, command |-> "unknown", help |-> TRUE]

\* mcp(): the replies a request can get.  data is the JSON body, a function
\* from its keys to their values.
mcp(method, data) ==
    IF method = "GET"
    THEN {[op |-> "mcp", error |-> FALSE, http |-> 200, command |-> "ready"]}
    ELSE IF DOMAIN data = {}
    THEN {[op |-> "mcp", error |-> TRUE, http |-> 400, command |-> "none"]}
    ELSE LET message == IF "message" \in DOMAIN data THEN data["message"] ELSE Str(<< >>) IN
         IF message.type # "str"
         THEN \* .lower() raises AttributeError; except Exception: 500
              {[op |-> "mcp", error |-> TRUE, http |-> 500, command |-> "none"]}
         ELSE LET command == Route(Lower(message.text)) IN
              IF command = "unknown" THEN {UnknownReply}
              ELSE IF command = "health-tips"
              THEN {[op |-> "mcp", error |-> FALSE, http |-> 200,
                     command |-> command, tip |-> t] : t \in Tips}
              ELSE {[op |-> "mcp", error |-> FALSE, http |-> 200,
                     command |-> command, usage |-> TRUE]}

-----------------------------------------------------------------------------
(* The store, one request at a time *)

Init == StoreInit

ProfileData == {[phone_number |-> p, height |-> None, weight |-> None] :
                    p \in Phones \cup {NoPhone}}

ToolLogWater(phone_number, amount_ml) ==
    /\ HasRoom
    /\ tool_log_water_intake(FindUser(users, phone_number), phone_number, amount_ml)
    /\ UNCHANGED pending

ToolLogSteps(phone_number, steps) ==
    /\ HasRoom
    /\ tool_log_steps(FindUser(users, phone_number), phone_number, steps)
    /\ UNCHANGED pending

ToolSummary(phone_number) ==
    /\ tool_get_health_summary(FindUser(users, phone_number), phone_number)
    /\ UNCHANGED pending

\* data['amount'] a JSON integer
HttpLogWater(amount) == HasRoom /\ http_log_water(JInt(amount))

\* data['steps'] a JSON integer
HttpLogSteps(steps) == HasRoom /\ http_log_steps(JInt(steps))

Login(phone_number) ==
    /\ login(FindUser(users, phone_number), phone_number)
    /\ UNCHANGED pending

ProfilePost(data) ==
    /\ user_profile(FindUser(users, ProfilePhone(data)), ProfilePhone(data), data)
    /\ UNCHANGED pending

\* Time passes.
Tick ==
    /\ now < MaxNow
    /\ now' = now + 1
    /\ reply' = NoReply
    /\ UNCHANGED <<users, water_logs, step_logs, session, tz, health_records, pending, request>>

Next ==
    \/ \E p \in Phones, a \in Amounts : ToolLogWater(p, a)
    \/ \E p \in Phones, n \in StepCounts : ToolLogSteps(p, n)
    \/ \E p \in Phones : ToolSummary(p)
    \/ \E a \in Amounts : HttpLogWater(a)
    \/ \E n \in StepCounts : HttpLogSteps(n)
    \/ get_water_today
    \/ get_steps_today
    \/ health_summary
    \/ \E p \in Phones \cup {NoPhone} : Login(p)
    \/ \E d \in ProfileData : ProfilePost(d)
    \/ Tick

Spec == Init /\ [][Next]_vars

-----------------------------------------------------------------------------
(* The three kinds of entries, one request at a time *)

MetricAmounts == {-1, 2500}
MetricSteps == {10000}
MetricWeights == {None, Some(700)}

ToolLogMetrics(phone_number, weight_kg) ==
    /\ HasRoom
    /\ tool_log_health_metrics(FindUser(users, phone_number), phone_number, weight_kg)
    /\ UNCHANGED pending

MetricsNext ==
    \/ \E p \in Phones, w \in MetricWeights : ToolLogMetrics(p, w)
    \/ \E p \in Phones, a \in MetricAmounts : ToolLogWater(p, a)
    \/ \E p \in Phones, n \in MetricSteps : ToolLogSteps(p, n)
    \/ \E a \in MetricAmounts : HttpLogWater(a)
    \/ \E n \in MetricSteps : HttpLogSteps(n)
    \/ \E p \in Phones : ToolSummary(p)
    \/ \E p \in Phones : Login(p)
    \/ get_water_today
    \/ get_steps_today
    \/ health_summary
    \/ Tick

MetricsSpec == Init /\ [][MetricsNext]_vars

-----------------------------------------------------------------------------
(* Concurrent requests: the lookup and the insert of a get-or-create are   *)
(* two steps, and other workers run between them.                          *)

WebWorkers == Workers \ {"mcp"}

\* The handler named op, from what its lookup found on.
Handler(op, found, phone_number) ==
    IF op = "tool_log_water_intake"
    THEN \E a \in Amounts : tool_log_water_intake(found, phone_number, a)
    ELSE IF op = "tool_get_health_summary"
    THEN tool_get_health_summary(found, phone_number)
    ELSE IF op = "login"
    THEN login(found, phone_number)
    ELSE user_profile(found, phone_number,
                      [phone_number |-> phone_number, height |-> None, weight |-> None])

\* A worker takes a request and looks the user up.  A user found, the
\* handler runs to its end; none found, the insert is still to come.
Begin(w, op, phone_number) ==
    /\ pending[w] = Idle
    /\ LET found == FindUser(users, phone_number) IN
       IF found # 0
       THEN Handler(op, found, phone_number) /\ UNCHANGED pending
       ELSE /\ pending' = [pending EXCEPT ![w] = [op |-> op, phone |-> phone_number]]
            /\ reply' = NoReply
            /\ UNCHANGED <<users, water_logs, step_logs, session, now, tz, health_records, request>>

\* The worker inserts the user, commits, and runs the handler to its end.
Finish(w) ==
    /\ pending[w] # Idle
    /\ Handler(pending[w].op, 0, pending[w].phone)
    /\ pending' = [pending EXCEPT ![w] = Idle]

BeginToolLogWater(p) == HasRoom /\ Begin("mcp", "tool_log_water_intake", p)
BeginToolSummary(p) == Begin("mcp", "tool_get_health_summary", p)
BeginLogin(w, p) == Begin(w, "login", p)
BeginProfilePost(w, p) ==
    Begin(w, "user_profile", IF session # NoSession THEN session ELSE p)

RaceNext ==
    \/ \E p \in Phones : BeginToolLogWater(p)
    \/ \E p \in Phones : BeginToolSummary(p)
    \/ \E w \in WebWorkers, p \in Phones : BeginLogin(w, p)
    \/ \E w \in WebWorkers, p \in Phones : BeginProfilePost(w, p)
    \/ \E w \in Workers : Finish(w)

RaceSpec == Init /\ [][RaceNext]_vars

-----------------------------------------------------------------------------
(* The commits of a tool call, one step each: other processes read and     *)
(* write the database between them.                                        *)

\* What the store holds about a phone number: its user row and that user's
\* entries.
Visible(phone_number) ==
    LET id == FindUser(users, phone_number) IN
    [user |-> IF id = 0 THEN None ELSE Some(users[id]),
     water |-> {i \in DOMAIN water_logs : water_logs[i].user_id = id},
     steps |-> {i \in DOMAIN step_logs : step_logs[i].user_id = id},
     records |-> {i \in DOMAIN health_records : health_records[i].user_id = id}]

\* A tool call is taken up and runs get_or_create_user, which commits a new
\* User for an unseen phone number.  base is what the store held about the
\* phone number when the call began.
BeginTool(op, phone_number, arg) ==
    /\ pending["mcp"] = Idle
    /\ HasRoom
    /\ LET goc == get_or_create_user(FindUser(users, phone_number), phone_number) IN
       /\ users' = goc.users
       /\ pending' = [pending EXCEPT !["mcp"] =
                         [op |-> op, phone |-> phone_number, id |-> goc.id, arg |-> arg,
                          base |-> Visible(phone_number)]]
    /\ reply' = NoReply
    /\ UNCHANGED <<water_logs, step_logs, session, now, tz, health_records, request>>

BeginLogHealthMetrics(phone_number, weight_kg) ==
    BeginTool("weight", phone_number, weight_kg)

BeginLogWaterIntake(phone_number, amount_ml) ==
    BeginTool("tool_log_water_intake", phone_number, amount_ml)

BeginCalculateBmi(phone_number, height_cm, weight_kg) ==
    BeginTool("tool_calculate_bmi", phone_number, <<height_cm, weight_kg>>)

\* log_health_metrics: if weight_kg: user.weight = weight_kg; db.session.commit()
CommitWeight ==
    /\ pending["mcp"].op = "weight"
    /\ users' = SetWeight(users, pending["mcp"].id, pending["mcp"].arg)
    /\ pending' = [pending EXCEPT !["mcp"].op = "tool_log_health_metrics"]
    /\ reply' = NoReply
    /\ UNCHANGED <<water_logs, step_logs, session, now, tz, health_records, request>>

\* The rest of the tool, to its last commit and its reply.
FinishTool ==
    LET call == pending["mcp"] IN
    /\ call.op \in {"tool_log_health_metrics", "tool_log_water_intake",
                    "tool_calculate_bmi"}
    /\ IF call.op = "tool_log_health_metrics"
       THEN tool_log_health_metrics(call.id, call.phone, call.arg)
       ELSE IF call.op = "tool_log_water_intake"
       THEN tool_log_water_intake(call.id, call.phone, call.arg)
       ELSE tool_calculate_bmi(call.id, call.phone, call.arg[1], call.arg[2])
    /\ pending' = [pending EXCEPT !["mcp"] = Idle]

CommitNext ==
    \/ \E p \in Phones, w \in MetricWeights : BeginLogHealthMetrics(p, w)
    \/ \E p \in Phones : BeginLogWaterIntake(p, 250)
    \/ \E p \in Phones : BeginCalculateBmi(p, 170, 700)
    \/ CommitWeight
    \/ FinishTool
    \/ \E p \in Phones : Login(p)
    \/ health_summary
    \/ get_water_today

CommitSpec == Init /\ [][CommitNext]_vars

-----------------------------------------------------------------------------
(* The command router on its own: a request is drawn, /mcp answers it *)

MaxWords == 2

Fragments ==
    {Bmi, Water, Steps, Tip, Log, Ai,
     <<"B", "M", "I">>, <<"T", "i", "p">>, <<"w", "a">>, <<"t", "e", "r">>,
     <<"x">>, <<" ">>}

RECURSIVE TextsOf(_)
TextsOf(n) ==
    IF n = 0 THEN {<< >>}
    ELSE TextsOf(n - 1) \cup {t \o f : t \in TextsOf(n - 1), f \in Fragments}

Texts == TextsOf(MaxWords)

Bodies ==
    {<< >>}
    \cup {("message" :> Str(t)) : t \in Texts}
    \cup {("message" :> NotStr)}
    \cup {("command" :> Str(t)) : t \in Texts}
    \cup {("message" :> Str(t)) @@ ("command" :> Str(Bmi)) : t \in Texts}

RouterRequests ==
    {[kind |-> "mcp", method |-> "POST", data |-> d] : d \in Bodies}
    \cup {[kind |-> "mcp", method |-> "GET", data |-> << >>]}

RouterInit ==
    /\ users = << >>
    /\ water_logs = << >>
    /\ step_logs = << >>
    /\ session = NoSession
    /\ now = 1
    /\ tz = 0
    /\ health_records = << >>
    /\ pending = [w \in Workers |-> Idle]
    /\ request \in RouterRequests
    /\ reply = NoReply

Mcp ==
    /\ request.kind = "mcp"
    /\ reply' \in mcp(request.method, request.data)
    /\ UNCHANGED <<users, water_logs, step_logs, session, now, tz, health_records, pending, request>>

RouterNext == Mcp

RouterSpec == RouterInit /\ [][RouterNext]_vars

-----------------------------------------------------------------------------
(* Claims about the command router (RouterSpec) *)

Keywords == <<Bmi, Water, Steps, Tip, Log, Ai>>
Intents == <<"bmi", "water-intake", "steps", "health-tips", "log-health", "ai-assistant">>

\* keyword occurs in text: some position of text starts a copy of keyword.
Occurs(text, keyword) ==
    \E start \in 1..Len(text) :
        /\ start + Len(keyword) - 1 <= Len(text)
        /\ \A n \in 1..Len(keyword) : text[start + n - 1] = keyword[n]

\* The keywords of the fixed order that occur in the lowercased text.
Matching(text) == {k \in DOMAIN Keywords : Occurs(Lower(text), Keywords[k])}

\* The request is a POST whose body is not empty and whose message, if it
\* has one, is a string: its text is the message, or empty without one.
HasText ==
    /\ request.kind = "mcp"
    /\ request.method = "POST"
    /\ DOMAIN request.data # {}
    /\ "message" \in DOMAIN request.data => request.data["message"].type = "str"

MessageText ==
    IF "message" \in DOMAIN request.data THEN request.data["message"].text ELSE << >>

Answered == reply.op = "mcp"

\* C3: the router resolves every message to the intent of the first keyword
\* of the order bmi, water, steps, tip, log, ai that occurs in the lowercased
\* message, and to Unknown when none occurs.
C3_FirstKeywordWins ==
    (HasText /\ Answered) =>
        /\ Matching(MessageText) = {} => reply.command = "unknown"
        /\ \A k \in Matching(MessageText) :
              (\A j \in Matching(MessageText) : k <= j) => reply.command = Intents[k]

\* A message that starts with one keyword and holds an earlier one of the
\* order further on (as "log water" does) was resolved to the earlier one.
C3_Witness ==
    /\ HasText /\ Answered
    /\ \E k, j \in Matching(MessageText) :
          /\ k < j
          /\ SubSeq(Lower(MessageText), 1, Len(Keywords[j])) = Keywords[j]
          /\ reply.command = Intents[k]

\* C9: a request whose text matches no keyword gets a successful reply with
\* the help hint: no error status, no error payload.
C9_UnknownIsSuccess ==
    (HasText /\ Answered /\ Matching(MessageText) = {}) =>
        /\ ~reply.error
        /\ reply.http = 200
        /\ reply.command = "unknown"
        /\ "help" \in DOMAIN reply

\* A text that is not empty and holds no keyword was answered.
C9_Witness ==
    /\ HasText /\ Answered
    /\ Len(MessageText) > 0
    /\ Matching(MessageText) = {}
    /\ reply.command = "unknown"

\* C10: a text is resolved alike in the command field and in the message
\* field: the reply to a body carrying it as command is one the router gives
\* to the body carrying it as message.
C10_CommandFieldLikeMessage ==
    (/\ request.kind = "mcp"
     /\ request.method = "POST"
     /\ DOMAIN request.data = {"command"}
     /\ Answered)
        => \E r \in mcp("POST", ("message" :> request.data["command"])) :
              /\ r.command = reply.command
              /\ r.error = reply.error

-----------------------------------------------------------------------------
(* The BMI entry points on their own: a height and a weight are drawn and  *)
(* the entry points answer them.  Heights are in centimetres, weights in   *)
(* tenths of a kilogram.                                                   *)

Heights == {None, Some(-100), Some(0), Some(100), Some(200)}
Weights == {None, Some(-700), Some(0), Some(184), Some(185), Some(249),
            Some(250), Some(299), Some(300), Some(997)}

BmiInit ==
    /\ users = << >>
    /\ water_logs = << >>
    /\ step_logs = << >>
    /\ session = NoSession
    /\ now = 1
    /\ tz = 0
    /\ health_records = << >>
    /\ pending = [w \in Workers |-> Idle]
    /\ request \in {[kind |-> "bmi", height |-> h, weight |-> w] :
                       h \in Heights, w \in Weights}
    /\ reply = NoReply

\* POST /bmi
AppBmi ==
    /\ request.kind = "bmi"
    /\ reply' \in app_bmi(request.weight, request.height)
    /\ UNCHANGED <<users, water_logs, step_logs, session, now, tz, health_records, pending, request>>

\* POST /api/bmi/calculate
HttpCalculateBmi ==
    /\ request.kind = "bmi"
    /\ reply' \in http_calculate_bmi(request.height, request.weight)
    /\ UNCHANGED <<users, water_logs, step_logs, session, now, tz, health_records, pending, request>>

\* Tool calculate_bmi; its parameters are floats.
ToolCalculateBmi(phone_number) ==
    /\ request.kind = "bmi"
    /\ request.height # None /\ request.weight # None
    /\ tool_calculate_bmi(FindUser(users, phone_number), phone_number,
                          request.height[1], request.weight[1])
    /\ UNCHANGED pending

\* POST /api/user/profile with the height and the weight.
ProfilePostBmi(phone_number) ==
    /\ request.kind = "bmi"
    /\ LET data == [phone_number |-> phone_number,
                    height |-> request.height, weight |-> request.weight]
       IN  user_profile(FindUser(users, ProfilePhone(data)), ProfilePhone(data), data)
    /\ UNCHANGED pending

BmiNext ==
    \/ AppBmi
    \/ HttpCalculateBmi
    \/ \E p \in Phones : ToolCalculateBmi(p)
    \/ \E p \in Phones : ProfilePostBmi(p)
    \/ \E p \in Phones : ToolSummary(p)
    \/ health_summary

BmiSpec == BmiInit /\ [][BmiNext]_vars

-----------------------------------------------------------------------------
(* The numeric parameters of the HTTP routes: a request is drawn, a client *)
(* logs in or not, the route answers                                       *)

ParamValues ==
    {Absent, JNull, JInt(0), JInt(250), JFloat(5), JFloat(27),
     JStr(<<"1", "2">>), JStr(<<"a", "b", "c">>)}

ParamRequests ==
    {[kind |-> "log_water", value |-> v] : v \in ParamValues}
    \cup {[kind |-> "log_steps", value |-> v] : v \in ParamValues}
    \cup {[kind |-> "bmi", height |-> h, weight |-> w] :
              h \in {None, Some(170)}, w \in {None, Some(700)}}

ParamInit ==
    /\ users = << >>
    /\ water_logs = << >>
    /\ step_logs = << >>
    /\ session = NoSession
    /\ now = 1
    /\ tz = 0
    /\ health_records = << >>
    /\ pending = [w \in Workers |-> Idle]
    /\ request \in ParamRequests
    /\ reply = NoReply

\* POST /api/water/log
HttpLogWaterRequest ==
    /\ request.kind = "log_water"
    /\ HasRoom
    /\ http_log_water(request.value)

\* POST /api/steps/log
HttpLogStepsRequest ==
    /\ request.kind = "log_steps"
    /\ HasRoom
    /\ http_log_steps(request.value)

\* The client's next request.
NextRequest ==
    /\ request' \in ParamRequests
    /\ reply' = NoReply
    /\ UNCHANGED <<users, water_logs, step_logs, session, now, tz, health_records, pending>>

ParamNext ==
    \/ NextRequest
    \/ \E p \in Phones : Login(p)
    \/ HttpLogWaterRequest
    \/ HttpLogStepsRequest
    \/ AppBmi
    \/ HttpCalculateBmi

ParamSpec == ParamInit /\ [][ParamNext]_vars

-----------------------------------------------------------------------------
(* Claims about the BMI entry points (BmiSpec) *)

\* The category of a BMI value in hundredths, by the thresholds 18.5, 25.0, 30.0.
CanonicalCategory(bmi100) ==
    IF bmi100 < 1850 THEN "Underweight"
    ELSE IF bmi100 < 2500 THEN "Normal weight"
    ELSE IF bmi100 < 3000 THEN "Overweight"
    ELSE "Obese"

ReportsBmi == ~reply.error /\ "bmi" \in DOMAIN reply /\ reply.bmi # None

PositiveInput ==
    /\ request.kind = "bmi"
    /\ request.height # None /\ request.weight # None
    /\ request.height[1] > 0 /\ request.weight[1] > 0

\* C7: every entry point that reports the BMI of a positive height and
\* weight reports the category of that value by the thresholds 18.5, 25.0
\* and 30.0.
C7_SameThresholdsEverywhere ==
    (ReportsBmi /\ PositiveInput) =>
        reply.category = CanonicalCategory(reply.bmi[1])

BmiCalculators == {"app_bmi", "http_calculate_bmi", "tool_calculate_bmi"}

NonPositiveInput ==
    /\ request.kind = "bmi"
    /\ request.height # None /\ request.weight # None
    /\ request.height[1] <= 0 \/ request.weight[1] <= 0

\* C8: a BMI calculation with height <= 0 or weight <= 0 ends in an error
\* and returns neither a BMI value nor a category, on every surface.
C8_NonPositiveRejected ==
    (reply.op \in BmiCalculators /\ NonPositiveInput) =>
        /\ reply.error
        /\ "bmi" \notin DOMAIN reply
        /\ "category" \notin DOMAIN reply

-----------------------------------------------------------------------------
(* Claims about the store (Spec) *)

\* The sum of amount_ml over the first n water entries that are the user's
\* and whose timestamp's calendar date is d.
RECURSIVE WaterOfDay(_, _, _)
WaterOfDay(user_id, d, n) ==
    IF n = 0 THEN 0
    ELSE WaterOfDay(user_id, d, n - 1)
         + (IF water_logs[n].user_id = user_id /\ DateOf(water_logs[n].logged_at) = d
            THEN water_logs[n].amount ELSE 0)

RECURSIVE StepsOfDay(_, _, _)
StepsOfDay(user_id, d, n) ==
    IF n = 0 THEN 0
    ELSE StepsOfDay(user_id, d, n - 1)
         + (IF step_logs[n].user_id = user_id /\ DateOf(step_logs[n].logged_at) = d
            THEN step_logs[n].steps ELSE 0)

Dates == -1..(DateOf(MaxNow + 1) + 1)

WaterOps == {"http_log_water", "get_water_today", "tool_log_water_intake"}
StepOps == {"http_log_steps", "get_steps_today", "tool_log_steps"}
SummaryOps == {"health_summary", "tool_get_health_summary"}

ReportsProgress == ~reply.error /\ "progress" \in DOMAIN reply

\* C4: the daily water total of a user and a date is the sum of amount_ml
\* over exactly that user's entries of that date, 0 without any; likewise
\* the daily step total; and the totals the handlers report are those of
\* the user and of today.
C4_DailyTotalIsSameDaySum ==
    /\ \A id \in DOMAIN users, d \in Dates :
          /\ get_daily_water_intake(water_logs, id, d) = WaterOfDay(id, d, Len(water_logs))
          /\ get_daily_steps(step_logs, id, d) = StepsOfDay(id, d, Len(step_logs))
    /\ ReportsProgress =>
          \A g \in reply.progress :
             LET id == FindUser(users, reply.phone) IN
             g.daily_total = IF g.kind = "water"
                             THEN WaterOfDay(id, Today, Len(water_logs))
                             ELSE StepsOfDay(id, Today, Len(step_logs))

\* A log has just reported a total that counts the entry of today and
\* leaves out the user's entry of another date and another user's entry.
C4_Witness ==
    /\ ReportsProgress
    /\ reply.op \in {"http_log_water", "tool_log_water_intake"}
    /\ \E g \in reply.progress :
          /\ g.daily_total = reply.logged
          /\ g.daily_total > 0
    /\ \E i \in DOMAIN water_logs :
          /\ water_logs[i].user_id = FindUser(users, reply.phone)
          /\ water_logs[i].amount > 0
          /\ DateOf(water_logs[i].logged_at) # Today

Completed == {"Goal reached!", "Goal achieved!", "Completed"}

\* C5 as stated: the reported percentage is min(100, 100 * total / goal),
\* the remaining amount max(0, goal - total), the status Completed exactly
\* when total >= goal.
C5_ExactPercentage ==
    ReportsProgress =>
        \A g \in reply.progress :
           g.daily_total >= 0 =>
              /\ g.percentage = Min(10000, (10000 * g.daily_total) \div g.goal)
              /\ "remaining" \in DOMAIN g =>
                    g.remaining = Max(0, g.goal - g.daily_total)
              /\ "status" \in DOMAIN g =>
                    (g.status \in Completed <=> g.daily_total >= g.goal)

\* C5 amended: the reported percentage is min(100, 100 * total / goal)
\* rounded to one decimal (a multiple of 0.1 at most 0.05 away), and that
\* value itself in the HTTP summary; the remaining amount and the status,
\* where the reply carries them, are as stated; the goals are the
\* configured ones.
C5_RoundedPercentage ==
    ReportsProgress =>
        \A g \in reply.progress :
           g.daily_total >= 0 =>
              LET exact == Min(10000, (10000 * g.daily_total) \div g.goal) IN
              /\ g.goal = IF g.kind = "water" THEN 2500 ELSE 10000
              /\ IF reply.op = "health_summary"
                 THEN g.percentage = exact
                 ELSE /\ g.percentage % 10 = 0
                      /\ g.percentage - exact <= 5
                      /\ exact - g.percentage <= 5
              /\ g.daily_total = 0 => g.percentage = 0
              /\ g.daily_total >= g.goal => g.percentage = 10000
              /\ "remaining" \in DOMAIN g =>
                    g.remaining = Max(0, g.goal - g.daily_total)
              /\ "status" \in DOMAIN g =>
                    (g.status \in Completed <=> g.daily_total >= g.goal)

\* A total above the goal was reported as 100 %, nothing remaining, reached.
C5_Witness ==
    /\ ReportsProgress
    /\ \E g \in reply.progress :
          /\ g.daily_total > g.goal
          /\ g.percentage = 10000
          /\ "remaining" \in DOMAIN g /\ g.remaining = 0
          /\ "status" \in DOMAIN g /\ g.status \in Completed

\* C6: every stored water entry has amount_ml > 0 and every stored step
\* entry has steps > 0.
C6_StoredValuesPositive ==
    /\ \A i \in DOMAIN water_logs : water_logs[i].amount > 0
    /\ \A i \in DOMAIN step_logs : step_logs[i].steps > 0

-----------------------------------------------------------------------------
(* Claims about concurrent get-or-create (RaceSpec) *)

GetOrCreateOps ==
    {"tool_log_water_intake", "tool_get_health_summary", "login", "user_profile"}

\* The last reply is that of a get-or-create whose insert was rejected by
\* the uniqueness constraint: it lost the race for its phone number.
LostRace ==
    /\ reply.op \in GetOrCreateOps
    /\ reply.error
    /\ reply.cause = "IntegrityError"

\* C1: whatever the interleaving of the get-or-create operations, no two
\* User records hold the same phone_number.
C1_PhoneNumberUnique ==
    \A i, j \in DOMAIN users :
        users[i].phone_number = users[j].phone_number => i = j

\* Two workers have both looked an unseen phone number up and found none;
\* one has inserted it, the other's insert was rejected, and the store
\* holds the one record.
C1_Witness ==
    /\ LostRace
    /\ \E p \in Phones : Cardinality({i \in DOMAIN users : users[i].phone_number = p}) = 1

\* C2: the get-or-create that loses the race for an unseen phone number
\* returns the existing User: no call ends in the error of the rejected
\* insert.
C2_LoserGetsExistingUser == ~LostRace

-----------------------------------------------------------------------------
(* Claims about reads and entries (MetricsSpec) *)

ReadOps == {"get_water_today", "get_steps_today", "health_summary",
            "tool_get_health_summary"}

\* C11: a read (today's water total, today's step total, the health
\* summary, over HTTP or as a tool) leaves the users, their profile fields,
\* the water entries, the step entries and the health records as they were.
C11_ReadsDoNotMutate ==
    [][reply'.op \in ReadOps =>
          /\ users' = users
          /\ water_logs' = water_logs
          /\ step_logs' = step_logs
          /\ health_records' = health_records]_vars

-----------------------------------------------------------------------------
(* Claims about the effects of a BMI calculation (BmiSpec) *)

\* C12: a BMI calculation (POST /api/bmi/calculate or the calculate_bmi
\* tool) leaves the stored users, and every user's stored height and weight,
\* as they were.
C12_BmiCalculationIsPure ==
    [][reply'.op \in {"http_calculate_bmi", "tool_calculate_bmi"} =>
          users' = users]_vars

-----------------------------------------------------------------------------
(* Claims about the numeric parameters (ParamSpec) *)

\* The request's numeric parameter is missing or is not a number.
BadParameter ==
    \/ /\ request.kind \in {"log_water", "log_steps"}
       /\ \/ request.value.json \in {"absent", "null"}
          \/ request.value.json = "str" /\ ~IsDigits(request.value.text)
    \/ /\ request.kind = "bmi"
       /\ request.height = None \/ request.weight = None

\* The last reply answers the request.
AnswersRequest ==
    \/ request.kind = "log_water" /\ reply.op = "http_log_water"
    \/ request.kind = "log_steps" /\ reply.op = "http_log_steps"
    \/ request.kind = "bmi" /\ reply.op \in {"app_bmi", "http_calculate_bmi"}

\* C14: a request whose numeric parameter is missing or non-numeric ends in
\* a structured error reply with a 4xx status, never in an unhandled
\* exception.
C14_BadParameterIs4xx ==
    (BadParameter /\ AnswersRequest) =>
        /\ reply.error
        /\ reply.http \in 400..499
        /\ reply.cause = "check"

-----------------------------------------------------------------------------
(* Claims about the commits of a request (CommitSpec) *)

\* C13: a write operation commits the changes of its request in one atomic
\* step: while a tool call is under way the store holds about its phone
\* number what it held when the call began, so that no reader and no
\* failure finds part of the call's writes applied.
C13_RequestCommitsAtOnce ==
    pending["mcp"] # Idle => Visible(pending["mcp"].phone) = pending["mcp"].base

-----------------------------------------------------------------------------
(* Claims about the health records (MetricsSpec) *)

ReportsLatest == reply.op \in SummaryOps /\ ~reply.error

RecordsOf(phone_number) ==
    {i \in DOMAIN health_records :
        health_records[i].user_id = FindUser(users, phone_number)}

\* C15: the latest health record a summary returns is a record of that user
\* whose record_date is the greatest among the user's records, and it is
\* null exactly when the user has no record.
C15_LatestRecordIsNewest ==
    ReportsLatest =>
        LET rows == RecordsOf(reply.phone) IN
        /\ reply.latest = None <=> rows = {}
        /\ reply.latest # None =>
              \E i \in rows :
                 /\ health_records[i].record_date = reply.latest[1].date
                 /\ health_records[i].weight = reply.latest[1].weight
                 /\ \A j \in rows :
                       health_records[j].record_date <= health_records[i].record_date

\* A summary has returned the newer of two records of different dates.
C15_Witness ==
    /\ ReportsLatest
    /\ reply.latest # None
    /\ \E i \in RecordsOf(reply.phone) :
          health_records[i].record_date < reply.latest[1].date

\* The rows of tbl are the first rows of tbl' , unchanged.
Extends(tbl, tbl2) ==
    /\ Len(tbl2) >= Len(tbl)
    /\ \A i \in DOMAIN tbl : tbl2[i] = tbl[i]

\* C16: water, step and health-record entries are append-only: a step of the
\* system keeps every stored entry as it is (value, owner, timestamp) and
\* removes none, and a step that appends an entry of one kind leaves the
\* entries of the other kinds unchanged.
C16_EntriesAppendOnly ==
    [][/\ Extends(water_logs, water_logs')
       /\ Extends(step_logs, step_logs')
       /\ Extends(health_records, health_records')
       /\ water_logs' # water_logs =>
             step_logs' = step_logs /\ health_records' = health_records
       /\ step_logs' # step_logs =>
             water_logs' = water_logs /\ health_records' = health_records
       /\ health_records' # health_records =>
             water_logs' = water_logs /\ step_logs' = step_logs]_vars

\* A health record has just been appended to a store that held a water
\* entry, which is still there.
C16_Witness ==
    /\ reply.op = "tool_log_health_metrics"
    /\ ~reply.error
    /\ Len(health_records) >= 1
    /\ Len(water_logs) >= 1

-----------------------------------------------------------------------------
(* Claims about the replies of the log operations (Spec) *)

LogOps == {"http_log_water", "http_log_steps", "tool_log_water_intake", "tool_log_steps"}

\* C17: the daily_total in the reply of a successful water or step log
\* includes the entry just logged (daily_total >= the logged value), at
\* every clock value and every offset between the UTC date of logged_at and
\* the host-local date of the query.
C17_ReplyIncludesLoggedEntry ==
    (reply.op \in LogOps /\ ~reply.error) =>
        \A g \in reply.progress : g.daily_total >= reply.logged

\* C18: the reported percentage is 100 only if total >= goal, that is only
\* with nothing remaining and the status of a reached goal.
C18_HundredOnlyAtGoal ==
    ReportsProgress =>
        \A g \in reply.progress :
           g.percentage = 10000 =>
              /\ g.daily_total >= g.goal
              /\ "remaining" \in DOMAIN g => g.remaining = 0
              /\ "status" \in DOMAIN g => g.status \in Completed

-----------------------------------------------------------------------------
(* Claims about the daily totals over time (MetricsSpec) *)

\* C19: for a user and a calendar date, the daily water total and the daily
\* step total never decrease, whatever the operation.
C19_TotalsNeverDecrease ==
    [][\A id \in DOMAIN users, d \in Dates :
          /\ get_daily_water_intake(water_logs', id, d)
                >= get_daily_water_intake(water_logs, id, d)
          /\ get_daily_steps(step_logs', id, d)
                >= get_daily_steps(step_logs, id, d)]_vars

-----------------------------------------------------------------------------
(* Claims about the checks of the HTTP log routes (ParamSpec) *)

HttpLogOps == {"http_log_water", "http_log_steps"}

-----------------------------------------------------------------------------
(* Claims about the HTTP session (Spec) *)

SessionOps == {"http_log_water", "http_log_steps", "get_water_today",
               "get_steps_today", "health_summary"}

\* C21: on the HTTP surface a session that carries a phone_number refers
\* to a User the store holds, so that log_water, log_steps, the today reads
\* and the summary never answer 404 'User not found'.
C21_SessionUserExists ==
    /\ session # NoSession => FindUser(users, session) # 0
    /\ reply.op \in SessionOps => reply.http # 404

\* With a session set by login or profile POST, a route that looks the
\* session's user up has found it and answered 200.
C21_Witness ==
    /\ session # NoSession
    /\ reply.op \in SessionOps
    /\ reply.http = 200
    /\ Len(users) >= 2

=============================================================================
